---- MODULE Spec2Model ----
(***************************************************************************)
(* The logger firmware's parameter store (ParamStore.cpp): the base        *)
(* contract SetKey/GetKey, the SPIFFS file backend (SPIFSParamStore) and   *)
(* the Bluefruit NVM slot backend (BLEParamStore), as one state machine.   *)
(* A behaviour is one firmware image (one backend, fixed by the factory)   *)
(* and a sequence of SetKey/GetKey calls made by its single caller.        *)
(*                                                                         *)
(* Strings are sequences of byte values.  Values handed to SetKey are      *)
(* text, so they hold no NUL byte; NVM contents may hold any byte.         *)
(***************************************************************************)
EXTENDS Integers, Sequences, FiniteSets, TLC

VARIABLES
    backend,    \* which subclass ParamStoreFactory::Create built: "SPIFS" or "BLE"
    mounted,    \* SPIFFS.begin(true) succeeded in the constructor
    files,      \* the SPIFFS file system: path -> [exists, data] (SPIFS build only)
    nvm,        \* the BLE module's NVM: address -> byte (BLE build only)
    last,       \* the most recent call: operation, arguments after the call, result
    written,    \* history: the keys whose NVM slot a SetKey has written
    halted      \* the program was stopped by a fault (buffer overrun in get_key)

vars == <<backend, mounted, files, nvm, last, written, halted>>

---------------------------------------------------------------------------
(* Program constants *)

max_nvm_string_length == 28

SizeofInt == 4

LengthFieldSize == 4

(* Bounds of the model *)

MaxValLen == 29

---------------------------------------------------------------------------
(* Inputs *)

RecognizedKeys == {"idstring", "adname", "ssid", "password", "ipaddress"}

Keys == RecognizedKeys \cup {"bogus"}

\* The text "abc..." of length l: every position holds a different character.
Word(l) == [i \in 1..l |-> 96 + i]

\* The text "bb..." of length l.
Alt(l) == [i \in 1..l |-> 98]

LongValue == Word(MaxValLen)

\* Shorter than a slot ("", "a", "ab", "bb"), exactly a slot ("bb...b"), longer.
Values ==
    {Word(0), Word(1), Word(2), Alt(2), Alt(max_nvm_string_length)}
        \cup {Word(l) : l \in (max_nvm_string_length + 1) .. MaxValLen}

\* The values the caller stores under each key: the whole range under "ssid",
\* a full slot and the longest value under "idstring", the longest value under
\* every other key.
ValuesFor(key) ==
    IF key = "ssid" THEN Values
    ELSE IF key = "idstring" THEN {Alt(max_nvm_string_length), LongValue}
    ELSE {LongValue}

Junk == <<63>>

\* What the caller's output string holds before a GetKey.
PriorValues == {<<>>, Junk}

\* What a never-written NVM may hold, as <<length field, value byte>> of every
\* slot: erased (all bits set), zeroed, or a length larger than a slot.
InitImages == {<<-1, 255>>, <<0, 0>>, <<29, 63>>}

---------------------------------------------------------------------------
(* Strings and bytes *)

Min(S) == CHOOSE x \in S : \A y \in S : x <= y

\* String::substring(from, to): characters from..to-1 (0-based), to clamped to the length.
substring(s, from, to) ==
    LET hi == IF to > Len(s) THEN Len(s) ELSE to
    IN  IF from >= hi THEN <<>> ELSE SubSeq(s, from + 1, hi)

\* String(const char*): the bytes before the first NUL.
CString(buf) ==
    LET z == {i \in 1..Len(buf) : buf[i] = 0}
    IN  IF z = {} THEN buf ELSE SubSeq(buf, 1, Min(z) - 1)

\* An int32 as its four bytes, least significant first (two's complement).
IntBytes(n) ==
    << n % 256, (n \div 256) % 256, (n \div 65536) % 256, (n \div 16777216) % 256 >>

\* The int32 held in four bytes.
BytesInt(b) ==
    LET hi == IF b[4] >= 128 THEN b[4] - 256 ELSE b[4]
    IN  b[1] + 256 * b[2] + 65536 * b[3] + 16777216 * hi

---------------------------------------------------------------------------
(* The record of a call *)

\* op, key: the call.  val: the value argument after the call (SetKey's input,
\* GetKey's output).  ret: the result.  opened: the file was opened (SPIFFS).
\* old: the key's file when the call was made (SPIFFS set_key).  addr: the slot
\* address computed.  len: the number of value bytes transferred to or from the
\* NVM.  term: the buffer index get_key wrote the terminator to.  -1: none.
Call(op, key, val, ret, opened, old, addr, len, term) ==
    [op |-> op, key |-> key, val |-> val, ret |-> ret, opened |-> opened, old |-> old,
     addr |-> addr, len |-> len, term |-> term]

---------------------------------------------------------------------------
(* SPIFFS: one file per key *)

\* The file a key is kept in.
Path(key) == "/" \o key \o ".par"

Paths == {Path(k) : k \in Keys}

NoFile == [exists |-> FALSE, data |-> <<>>]

\* Variant: the file is opened for appending, its contents kept.
OpenForWrite_append(f) == [exists |-> TRUE, data |-> f.data]

\* SPIFFS.open(path, FILE_WRITE): the file is created, or cut to length 0.
OpenForWrite(f) == [exists |-> TRUE, data |-> <<>>]

\* File::print(value): the value's bytes go to the end of the open file.
FilePrint(f, value) == [f EXCEPT !.data = f.data \o value]

\* File::readString(): everything in the file.
readString(f) == f.data

\* Variant: the result of the open is not looked at, and the value is printed anyway.
SPIFS_set_key_unchecked(key, value, openOk) ==
    LET f == mounted /\ openOk
    IN  /\ backend = "SPIFS"
        /\ files' = [files EXCEPT ![Path(key)] = [exists |-> TRUE, data |-> value]]
        /\ last' = Call("set", key, value, TRUE, f, files[Path(key)], -1, -1, -1)
        /\ UNCHANGED <<backend, mounted, nvm, written, halted>>

\* SPIFSParamStore::set_key.  openOk: whether the file system lets the file be opened.
SPIFS_set_key(key, value, openOk) ==
    LET f == mounted /\ openOk
    IN  /\ backend = "SPIFS"
        /\ IF ~f
           THEN /\ files' = files
                /\ last' = Call("set", key, value, FALSE, f, files[Path(key)], -1, -1, -1)
           ELSE /\ files' = [files EXCEPT ![Path(key)] = FilePrint(OpenForWrite(@), value)]
                /\ last' = Call("set", key, value, TRUE, f, files[Path(key)], -1, -1, -1)
        /\ UNCHANGED <<backend, mounted, nvm, written, halted>>

\* Variant: the output string is left alone when the file is not found.
SPIFS_get_result_keep(fs, mnt, key, v0) ==
    LET f == mnt /\ fs[Path(key)].exists
    IN  IF ~f
        THEN [ret |-> FALSE, val |-> v0, opened |-> f]
        ELSE [ret |-> TRUE, val |-> readString(fs[Path(key)]), opened |-> f]

\* SPIFSParamStore::get_key, as a function of the file system: result and output.
\* v0: what the output string held before the call.
SPIFS_get_result(fs, mnt, key, v0) ==
    LET f == mnt /\ fs[Path(key)].exists
    IN  IF ~f
        THEN [ret |-> FALSE, val |-> <<>>, opened |-> f]
        ELSE [ret |-> TRUE, val |-> readString(fs[Path(key)]), opened |-> f]

\* SPIFSParamStore::get_key
SPIFS_get_key(key, v0) ==
    LET r == SPIFS_get_result(files, mounted, key, v0)
    IN  /\ backend = "SPIFS"
        /\ last' = Call("get", key, r.val, r.ret, r.opened, NoFile, -1, -1, -1)
        /\ UNCHANGED <<backend, mounted, files, nvm, written, halted>>

---------------------------------------------------------------------------
(* BLE module NVM: one fixed slot per recognised key *)

SlotSize == SizeofInt + max_nvm_string_length

\* The NVM holds the five slots and the bytes after them, which belong to no key.
NvmSize == SlotSize * (Cardinality(RecognizedKeys) + 1)

\* BLEParamStore::match_key
match_key(key) ==
    IF key = "idstring" THEN 0
    ELSE IF key = "adname" THEN 1
    ELSE IF key = "ssid" THEN 2
    ELSE IF key = "password" THEN 3
    ELSE IF key = "ipaddress" THEN 4
    ELSE -1

\* ble.writeNVM(address, data, size): raw bytes at address..address+size-1.
writeNVM(mem, address, bytes) ==
    [a \in DOMAIN mem |->
        IF a >= address /\ a < address + Len(bytes) THEN bytes[a - address + 1] ELSE mem[a]]

\* ble.readNVM(address, data, size): the size bytes at address.
readNVM(mem, address, size) == [i \in 1..size |-> mem[address + i - 1]]

\* Variant: the value is written whole, whatever its length.
write_str_whole(value) == value

\* Variant: a value that fills the slot loses its last character.
write_str_short(value) ==
    IF Len(value) < max_nvm_string_length
    THEN value
    ELSE substring(value, 0, max_nvm_string_length - 1)

\* set_key: the string that is written.
write_str(value) ==
    IF Len(value) < max_nvm_string_length
    THEN value
    ELSE substring(value, 0, max_nvm_string_length)

\* Variant: the slots are laid out without room for their length fields.
set_address_packed(refnum) == max_nvm_string_length * refnum

\* set_key: the slot's address.
set_address(refnum) == (SizeofInt + max_nvm_string_length) * refnum

\* Variant: the address is that of the value bytes, not of the length field.
get_address_value(refnum) == (SizeofInt + max_nvm_string_length) * refnum + SizeofInt

\* get_key: the slot's address.
get_address(refnum) == (SizeofInt + max_nvm_string_length) * refnum

\* BLEParamStore::set_key
BLE_set_key(key, value) ==
    LET refnum  == match_key(key)
        address == set_address(refnum)
        ws      == write_str(value)
    IN  /\ backend = "BLE"
        /\ IF refnum < 0
           THEN /\ nvm' = nvm
                /\ written' = written
                /\ last' = Call("set", key, value, FALSE, FALSE, NoFile, -1, -1, -1)
           ELSE /\ nvm' = writeNVM(writeNVM(nvm, address, IntBytes(Len(ws))),
                                   address + LengthFieldSize, ws)
                /\ written' = written \cup {key}
                /\ last' = Call("set", key, value, TRUE, FALSE, NoFile, address, Len(ws), -1)
        /\ UNCHANGED <<backend, mounted, files, halted>>

\* get_key: the length field of the slot at address.
stored_length(mem, address) == BytesInt(readNVM(mem, address, SizeofInt))

\* get_key: the length read fits the buffer of max_nvm_string_length + 1 bytes
\* together with its terminator.
fits_buffer(length) == length >= 0 /\ length <= max_nvm_string_length

\* What get_key may hand back once it has overrun its buffer.
OverrunValues == {<<>>, Junk}

\* BLEParamStore::get_key, as a function of the NVM: the outcomes the call can
\* have.  v0: what the output string held before the call.  A stored length
\* that does not fit the buffer overruns it: the call then returns some string,
\* or the program stops (halt).
BLE_get_outcomes(mem, key, v0) ==
    LET refnum  == match_key(key)
        address == get_address(refnum)
        length  == stored_length(mem, address)
    IN  IF refnum < 0
        THEN {[ret |-> FALSE, val |-> v0, addr |-> -1, len |-> -1, term |-> -1,
               halt |-> FALSE]}
        ELSE IF fits_buffer(length)
        THEN {[ret |-> TRUE,
               val |-> CString(readNVM(mem, address + LengthFieldSize, length)),
               addr |-> address, len |-> length, term |-> length, halt |-> FALSE]}
        ELSE {[ret |-> TRUE, val |-> g, addr |-> address, len |-> length,
               term |-> length, halt |-> FALSE] : g \in OverrunValues}
             \cup {[ret |-> FALSE, val |-> v0, addr |-> address, len |-> length,
                    term |-> length, halt |-> TRUE]}

\* BLEParamStore::get_key
BLE_get_key(key, v0) ==
    /\ backend = "BLE"
    /\ \E r \in BLE_get_outcomes(nvm, key, v0) :
          /\ last' = Call("get", key, r.val, r.ret, FALSE, NoFile, r.addr, r.len, r.term)
          /\ halted' = r.halt
    /\ UNCHANGED <<backend, mounted, files, nvm, written>>

---------------------------------------------------------------------------
(* The base contract and the factory *)

\* ParamStore::SetKey: the call goes to the subclass (while the program runs).
SetKey(key, value) ==
    \/ ~halted /\ \E openOk \in BOOLEAN : SPIFS_set_key(key, value, openOk)
    \/ ~halted /\ BLE_set_key(key, value)

\* ParamStore::GetKey: the call goes to the subclass (while the program runs).
GetKey(key, v0) ==
    \/ ~halted /\ SPIFS_get_key(key, v0)
    \/ ~halted /\ BLE_get_key(key, v0)

NoCall == Call("none", "", <<>>, FALSE, FALSE, NoFile, -1, -1, -1)

\* A never-written NVM: every slot holds the same length field and value bytes.
FreshNvm(image) ==
    [a \in 0..(NvmSize - 1) |->
        IF a % SlotSize < SizeofInt THEN IntBytes(image[1])[(a % SlotSize) + 1] ELSE image[2]]

\* ParamStoreFactory::Create and the subclass constructors, on a fresh store.
Init ==
    /\ backend \in {"SPIFS", "BLE"}
    /\ mounted \in (IF backend = "SPIFS" THEN BOOLEAN ELSE {FALSE})
    /\ files = [p \in (IF backend = "SPIFS" THEN Paths ELSE {}) |-> NoFile]
    /\ nvm \in (IF backend = "BLE" THEN {FreshNvm(image) : image \in InitImages}
                                    ELSE {<<>>})
    /\ last = NoCall
    /\ written = {}
    /\ halted = FALSE

Next ==
    \/ \E key \in Keys : \E value \in ValuesFor(key) : SetKey(key, value)
    \/ \E key \in Keys : \E v0 \in PriorValues : GetKey(key, v0)

Spec == Init /\ [][Next]_vars

---------------------------------------------------------------------------
(* Properties *)

OnSPIFS == backend = "SPIFS"

OnBLE == backend = "BLE"

\* The slot layout of the specification: 32 bytes a slot, in the order of the keys.
SlotOffset ==
    [k \in RecognizedKeys |->
        CASE k = "idstring"  -> 0
          [] k = "adname"    -> 32
          [] k = "ssid"      -> 64
          [] k = "password"  -> 96
          [] k = "ipaddress" -> 128]

\* Every key names a file; only the five names have a slot.
Recognized(key) == OnSPIFS \/ key \in RecognizedKeys

\* The file system stores any length; a slot stores 28 characters.
WithinLimit(value) == OnSPIFS \/ Len(value) <= 28

\* The four bytes of a slot's length field.
LengthField(mem, offset) == <<mem[offset], mem[offset + 1], mem[offset + 2], mem[offset + 3]>>

\* C1 as stated: for every recognised key and every value within the length
\* limit, SetKey returns true, and the GetKey that follows at once returns true
\* with exactly that value.
C1_RoundTrip_AsStated ==
    [][ /\ (last'.op = "set" /\ Recognized(last'.key) /\ WithinLimit(last'.val))
              => last'.ret
        /\ (/\ last.op = "set" /\ Recognized(last.key) /\ WithinLimit(last.val)
            /\ last'.op = "get" /\ last'.key = last.key)
              => (last'.ret /\ last'.val = last.val) ]_vars

\* C1 as amended: on the slot backend SetKey of a recognised key returns true;
\* on the file backend it returns true exactly when the key's file could be
\* opened for writing; and whenever SetKey(k, v) returned true, v within the
\* length limit, the GetKey(k) that follows at once returns true with exactly v.
C1_RoundTrip ==
    [][ /\ (OnBLE /\ last'.op = "set" /\ last'.key \in RecognizedKeys) => last'.ret
        /\ (OnSPIFS /\ last'.op = "set") => (last'.ret <=> last'.opened)
        /\ (/\ last.op = "set" /\ last.ret /\ WithinLimit(last.val)
            /\ last'.op = "get" /\ last'.key = last.key)
              => (last'.ret /\ last'.val = last.val) ]_vars

\* A value of exactly 28 characters has come back from its slot.
C1_Witness ==
    /\ OnBLE /\ last.op = "get" /\ last.key = "ssid" /\ last.ret
    /\ last.val = Alt(28)

\* C2: on the slot backend a key outside the five names makes SetKey and GetKey
\* return false, and the failed GetKey leaves its output empty.
C2_UnknownKeyRejected ==
    (OnBLE /\ last.op \in {"set", "get"} /\ last.key \notin RecognizedKeys)
        => (~last.ret /\ (last.op = "get" => last.val = <<>>))

\* C3: on the slot backend SetKey of a value longer than 28 characters returns
\* true and stores the length 28, and the GetKey that follows returns true with
\* the first 28 characters.
C3_Truncation ==
    [][ /\ (OnBLE /\ last'.op = "set" /\ last'.key \in RecognizedKeys /\ Len(last'.val) > 28)
              => (last'.ret /\ LengthField(nvm', SlotOffset[last'.key]) = <<28, 0, 0, 0>>)
        /\ (/\ OnBLE /\ last.op = "set" /\ last.key \in RecognizedKeys /\ Len(last.val) > 28
            /\ last'.op = "get" /\ last'.key = last.key)
              => (last'.ret /\ last'.val = SubSeq(last.val, 1, 28)) ]_vars

\* The first 28 characters of a longer value have come back ("abc..." of length
\* 28 is stored by no SetKey as it stands).
C3_Witness ==
    /\ OnBLE /\ last.op = "get" /\ last.key = "ssid" /\ last.ret
    /\ last.val = Word(28)
    /\ LengthField(nvm, 64) = <<28, 0, 0, 0>>

\* C4: on the slot backend GetKey of a recognised key whose slot no SetKey has
\* written returns false and leaves its output empty.
C4_NeverSetFails ==
    (OnBLE /\ ~halted /\ last.op = "get" /\ last.key \in RecognizedKeys
           /\ last.key \notin written)
        => (~last.ret /\ last.val = <<>>)

\* C5: on the file backend, when SetKey(k, b) has stored b over a file that an
\* earlier SetKey(k, a) had stored, the file holds exactly b, and the GetKey(k)
\* that follows returns exactly b: nothing of a is left, whatever the lengths.
C5_Overwrite ==
    [][ /\ (OnSPIFS /\ last'.op = "set" /\ last'.ret /\ last'.old.exists)
              => files'[Path(last'.key)] = [exists |-> TRUE, data |-> last'.val]
        /\ (/\ OnSPIFS /\ last.op = "set" /\ last.ret /\ last.old.exists
            /\ last'.op = "get" /\ last'.key = last.key)
              => (last'.ret /\ last'.val = last.val) ]_vars

\* "bb" has been stored over "a".
C5_Witness ==
    /\ OnSPIFS /\ last.op = "set" /\ last.ret
    /\ last.old = [exists |-> TRUE, data |-> <<97>>]
    /\ last.val = <<98, 98>>
    /\ files[Path(last.key)].data = <<98, 98>>

\* C6: on the file backend GetKey of a key that has no file returns false with
\* its output empty, whatever the output held, and creates no file.
C6_MissingFile ==
    [][ (OnSPIFS /\ last'.op = "get" /\ ~files[Path(last'.key)].exists)
            => (~last'.ret /\ last'.val = <<>> /\ files' = files) ]_vars

\* A key without a file has been read in a mounted store that holds other files.
C6_Witness ==
    /\ OnSPIFS /\ mounted /\ last.op = "get" /\ ~last.ret /\ last.val = <<>>
    /\ ~files[Path(last.key)].exists
    /\ \E p \in Paths : files[p].exists

\* C7: set_key and get_key both compute the address 0, 32, 64, 96, 128 for
\* idstring, adname, ssid, password, ipaddress.
C7_SlotAddress ==
    (OnBLE /\ last.op \in {"set", "get"} /\ last.key \in RecognizedKeys)
        => last.addr = SlotOffset[last.key]

\* The last slot has been written at 128 and then read at 128.
C7_Witness ==
    /\ OnBLE /\ last.op = "get" /\ last.key = "ipaddress" /\ last.addr = 128
    /\ "ipaddress" \in written
    /\ LengthField(nvm, 128) = <<28, 0, 0, 0>>

\* C8: on the file backend a SetKey whose file cannot be opened returns false
\* and changes no file, so that every key reads as before.
C8_FailedSet ==
    [][ (OnSPIFS /\ last'.op = "set" /\ ~last'.opened)
            => /\ ~last'.ret
               /\ files' = files
               /\ \A k \in Keys : \A v0 \in PriorValues :
                     SPIFS_get_result(files', mounted', k, v0)
                        = SPIFS_get_result(files, mounted, k, v0) ]_vars

\* A SetKey has failed on a key whose file holds another value, and the file
\* still holds it.
C8_Witness ==
    /\ OnSPIFS /\ mounted /\ last.op = "set" /\ ~last.opened /\ ~last.ret
    /\ last.old.exists /\ last.old.data # last.val
    /\ files[Path(last.key)] = last.old

\* C9: get_key of a recognised key reads at most 28 value bytes and writes its
\* terminator at an index in 0..28, whatever the slot's length field holds.
C9_BoundedRead ==
    (OnBLE /\ last.op = "get" /\ last.key \in RecognizedKeys)
        => (last.len <= 28 /\ last.term \in 0..28)

\* C10: SetKey(k, v) changes only the bytes of k's slot, or only k's file, so
\* that GetKey of every other key has the same outcomes before and after; and
\* GetKey changes nothing stored.
C10_KeyIsolation ==
    [][ /\ (last'.op = "set" /\ OnBLE)
              => /\ files' = files
                 /\ \A a \in DOMAIN nvm :
                       nvm'[a] # nvm[a]
                          => /\ last'.key \in RecognizedKeys
                             /\ a >= SlotOffset[last'.key]
                             /\ a < SlotOffset[last'.key] + 32
                 /\ \A k2 \in Keys \ {last'.key} : \A v0 \in PriorValues :
                       BLE_get_outcomes(nvm', k2, v0) = BLE_get_outcomes(nvm, k2, v0)
        /\ (last'.op = "set" /\ OnSPIFS)
              => /\ nvm' = nvm
                 /\ \A p \in Paths : files'[p] # files[p] => p = Path(last'.key)
                 /\ \A k2 \in Keys \ {last'.key} : \A v0 \in PriorValues :
                       SPIFS_get_result(files', mounted', k2, v0)
                          = SPIFS_get_result(files, mounted, k2, v0)
        /\ (last'.op = "get") => (nvm' = nvm /\ files' = files) ]_vars

\* A value cut to 28 characters has been written to ssid's slot while the next
\* slot, password's, holds a value written before, and still holds it.
C10_Witness ==
    /\ OnBLE /\ last.op = "set" /\ last.key = "ssid" /\ Len(last.val) > 28
    /\ "password" \in written
    /\ LengthField(nvm, 96) = <<28, 0, 0, 0>>
    /\ \A i \in 1..28 : nvm[96 + 3 + i] = 96 + i

====
